---- MODULE Spec2Model ----
(***************************************************************************)
(* Verification model of the AR viewer repository:                        *)
(*   - scripts/generate-asset-index.js  (generateIndex, main)             *)
(*   - MaterialSelector                 (getModelMaterials and palettes)  *)
(*   - ARCamera, both variants          (camera, scene, spawn, transform) *)
(* Strings the code inspects character by character (file names, model    *)
(* names) are tuples of one-character strings.                            *)
(***************************************************************************)
EXTENDS Integers, Sequences, FiniteSets, TLC

\* The asset indexer's file system
VARIABLES
  dirExists,   \* directory -> whether public/<directory> exists
  files,       \* directory -> names in it other than index.json
  indexJson,   \* directory -> text of its index.json, or NoFile
  gen,         \* directory -> record of the generateIndex runs on it
  changes,     \* number of changes the environment made to the directories
  nGen         \* number of runs of generateIndex or main so far

\* A lookup in the material catalog
VARIABLES
  mparts,    \* the two fragments the model name is made of
  mresult    \* what getModelMaterials returned for it, or NotCalled

\* The viewer component
VARIABLES
  variant,        \* 1: the component of lines 1-608; 2: that of lines 609-1036
  mounted,        \* the component is mounted
  hasStarted,     \* variant 2: useState hasStarted
  cameraActive,   \* useState cameraActive
  srcObject,      \* videoRef.current.srcObject: a stream, or 0 for null
  live,           \* the streams with a track that is not stopped
  nStreams,       \* streams handed out by getUserMedia so far
  camPending,     \* getUserMedia calls not yet settled
  sceneRef,       \* sceneRef.current: a scene, or 0 for null
  nScenes,        \* scenes created so far
  canvasInDoc,    \* renderer.domElement is in the document
  raf,            \* requestAnimationFrame callbacks currently scheduled
  sceneNodes,     \* pairs << scene, node >>: node is a child of scene
  nodeT,          \* node -> its transform (the THREE.Object3D's own fields)
  arModels,       \* useState arModels
  selectedModel,  \* useState selectedModel
  controlMode,    \* useState controlMode
  isLoading,      \* useState isLoading
  activeModel,    \* useState activeModel
  loads,          \* the asset loads in flight
  nLoads,         \* loads started so far
  now,            \* Date.now()
  toasts,         \* the notifications the last operation showed
  nOps,           \* handler calls made by the user so far
  last            \* the last operation, with what it saw before it acted

ivars == << dirExists, files, indexJson, gen, changes, nGen >>

mvars == << mparts, mresult >>

avars ==
  << variant, mounted, hasStarted, cameraActive, srcObject, live, nStreams,
     camPending, sceneRef, nScenes, canvasInDoc, raf, sceneNodes, nodeT,
     arModels, selectedModel, controlMode, isLoading, activeModel, loads,
     nLoads, now, toasts, nOps, last >>

\* What an action of the viewer leaves alone: the other two components.
outside == << ivars, mvars >>

vars == << ivars, mvars, avars >>

(***************************************************************************)
(* Characters and strings                                                  *)
(***************************************************************************)

\* The characters used by the model, in increasing UTF-16 code unit order.
Alphabet ==
  << " ", "-", ".", "3",
     "A", "B", "C", "E", "F", "H", "I", "L", "O", "R", "S", "T",
     "a", "b", "c", "d", "e", "f", "g", "h", "i", "j", "l", "m", "n", "o",
     "p", "r", "s", "t", "u", "v", "x" >>

CharCode(c) == CHOOSE i \in 1..Len(Alphabet) : Alphabet[i] = c

UpperCase == << "A", "B", "C", "E", "F", "H", "I", "L", "O", "R", "S", "T" >>
LowerCase == << "a", "b", "c", "e", "f", "h", "i", "l", "o", "r", "s", "t" >>

\* String.prototype.toLowerCase, one character
LowerChar(c) ==
  IF \E i \in 1..Len(UpperCase) : UpperCase[i] = c
    THEN LowerCase[CHOOSE i \in 1..Len(UpperCase) : UpperCase[i] = c]
    ELSE c

\* String.prototype.toLowerCase
ToLowerCase(s) == [i \in 1..Len(s) |-> LowerChar(s[i])]

\* String.prototype.includes
Includes(s, sub) ==
  \E i \in 1..(Len(s) - Len(sub) + 1) : SubSeq(s, i, i + Len(sub) - 1) = sub

\* String.prototype.endsWith
EndsWith(s, suffix) ==
  /\ Len(suffix) <= Len(s)
  /\ SubSeq(s, Len(s) - Len(suffix) + 1, Len(s)) = suffix

\* The default comparison of Array.prototype.sort on strings: code units,
\* left to right, a proper prefix first.
RECURSIVE StrLess(_, _)
StrLess(a, b) ==
  IF b = << >> THEN FALSE
  ELSE IF a = << >> THEN TRUE
  ELSE IF CharCode(Head(a)) < CharCode(Head(b)) THEN TRUE
  ELSE IF CharCode(Head(a)) > CharCode(Head(b)) THEN FALSE
  ELSE StrLess(Tail(a), Tail(b))

(***************************************************************************)
(* Asset indexer: scripts/generate-asset-index.js                          *)
(***************************************************************************)

NoFile == << "no file" >>

Dirs == { "3d", "minds" }

IndexName == << "i", "n", "d", "e", "x", ".", "j", "s", "o", "n" >>

ExtGlb  == << ".", "g", "l", "b" >>
ExtMind == << ".", "m", "i", "n", "d" >>
ExtJson == << ".", "j", "s", "o", "n" >>

\* Extensions generateIndex is called with: main's two, and one that
\* index.json itself ends with.
Extensions == { ExtGlb, ExtMind, ExtJson }

\* Names that can be placed in a directory by the environment.
FileNames ==
  { << "a", ".", "g", "l", "b" >>,
    << "B", ".", "g", "l", "b" >>,
    << "a", ".", "g", "l", "b", ".", "m", "i", "n", "d" >>,
    << "x", ".", "j", "s", "o", "n" >> }

\* fs.readdirSync(fullPath): every name in the directory
ReadDir(d) ==
  files[d] \cup (IF indexJson[d] = NoFile THEN {} ELSE { IndexName })

\* Array.prototype.sort() with the default comparison
RECURSIVE SortNames(_)
SortNames(S) ==
  IF S = {} THEN << >>
  ELSE LET m == CHOOSE x \in S : \A y \in S \ {x} : StrLess(x, y)
       IN  << m >> \o SortNames(S \ {m})

\* the elements of JSON.stringify(files, null, 2), each on a line of its own
RECURSIVE JoinNames(_)
JoinNames(names) ==
  IF names = << >> THEN << >>
  ELSE << "\n", " ", " ", "\"" >> \o Head(names) \o << "\"" >>
       \o (IF Len(names) > 1 THEN << "," >> ELSE << >>)
       \o JoinNames(Tail(names))

\* JSON.stringify(files, null, 2) for an array of strings
Stringify(names) ==
  IF names = << >> THEN << "[", "]" >>
  ELSE << "[" >> \o JoinNames(names) \o << "\n", "]" >>

\* response.json() on an index file: the strings between the quotes, in order
RECURSIVE ParseFrom(_, _, _, _)
ParseFrom(text, inside, cur, acc) ==
  IF text = << >> THEN acc
  ELSE IF Head(text) = "\""
    THEN IF inside THEN ParseFrom(Tail(text), FALSE, << >>, Append(acc, cur))
                   ELSE ParseFrom(Tail(text), TRUE, << >>, acc)
  ELSE IF inside THEN ParseFrom(Tail(text), TRUE, Append(cur, Head(text)), acc)
  ELSE ParseFrom(Tail(text), FALSE, cur, acc)

ParseIndex(text) == ParseFrom(text, FALSE, << >>, << >>)

\* A mutant of ListMatching: the filter tests includes() instead of endsWith().
MutListIncludes(d, extension) ==
  SortNames({ f \in ReadDir(d) : Includes(f, extension) })

\* lines 19-21: readdirSync(fullPath).filter(file => file.endsWith(extension)).sort()
ListMatching(d, extension) ==
  SortNames({ f \in ReadDir(d) : EndsWith(f, extension) })

\* The record kept of a run of generateIndex(d, extension): how many runs in
\* a row used this extension with nothing else touching the directory, and
\* whether the first of them found no index.json.
GenRecord(d, extension) ==
  LET again == gen[d].runs > 0 /\ gen[d].ext = extension
  IN  [ ext  |-> extension,
        runs |-> IF again THEN gen[d].runs + 1 ELSE 1,
        made |-> IF again THEN gen[d].made ELSE indexJson[d] = NoFile ]

NoGen == [ ext |-> << >>, runs |-> 0, made |-> FALSE ]

MaxGen == 2

\* generateIndex(directory, extension), lines 9-27
GenerateIndex(d, extension) ==
  /\ nGen < MaxGen
  /\ nGen' = nGen + 1
  /\ dirExists' = [dirExists EXCEPT ![d] = TRUE]
  /\ indexJson' = [indexJson EXCEPT ![d] = Stringify(ListMatching(d, extension))]
  /\ gen' = [gen EXCEPT ![d] = GenRecord(d, extension)]
  /\ UNCHANGED << files, changes, mvars, avars >>

\* main(), lines 30-36
Main ==
  /\ nGen < MaxGen
  /\ nGen' = nGen + 1
  /\ dirExists' = [d \in Dirs |-> TRUE]
  /\ indexJson' = [d \in Dirs |->
       Stringify(ListMatching(d, IF d = "3d" THEN ExtGlb ELSE ExtMind))]
  /\ gen' = [d \in Dirs |-> GenRecord(d, IF d = "3d" THEN ExtGlb ELSE ExtMind)]
  /\ UNCHANGED << files, changes, mvars, avars >>

MaxChanges == 1

\* The environment puts a file into public/<d>, creating the directory.
AddFile(d, f) ==
  /\ changes < MaxChanges
  /\ changes' = changes + 1
  /\ f \notin files[d]
  /\ files' = [files EXCEPT ![d] = @ \cup {f}]
  /\ dirExists' = [dirExists EXCEPT ![d] = TRUE]
  /\ gen' = [gen EXCEPT ![d] = NoGen]
  /\ UNCHANGED << indexJson, nGen, mvars, avars >>

\* The environment deletes a file of public/<d>.
RemoveFile(d, f) ==
  /\ changes < MaxChanges
  /\ changes' = changes + 1
  /\ f \in files[d]
  /\ files' = [files EXCEPT ![d] = @ \ {f}]
  /\ gen' = [gen EXCEPT ![d] = NoGen]
  /\ UNCHANGED << dirExists, indexJson, nGen, mvars, avars >>

\* The environment deletes public/<d>/index.json.
RemoveIndex(d) ==
  /\ changes < MaxChanges
  /\ changes' = changes + 1
  /\ indexJson[d] # NoFile
  /\ indexJson' = [indexJson EXCEPT ![d] = NoFile]
  /\ gen' = [gen EXCEPT ![d] = NoGen]
  /\ UNCHANGED << dirExists, files, nGen, mvars, avars >>

\* The directories as the script finds them: absent, or holding some files.
MaxInitFiles == 2

IndexInit ==
  /\ files \in [Dirs -> { S \in SUBSET FileNames : Cardinality(S) <= MaxInitFiles }]
  /\ Cardinality(files["3d"]) + Cardinality(files["minds"]) <= MaxInitFiles
  /\ dirExists \in [Dirs -> BOOLEAN]
  /\ \A d \in Dirs : files[d] # {} => dirExists[d]
  /\ indexJson = [d \in Dirs |-> NoFile]
  /\ gen = [d \in Dirs |-> NoGen]
  /\ changes = 0
  /\ nGen = 0

IndexNext ==
  \/ \E d \in Dirs, e \in Extensions : GenerateIndex(d, e)
  \/ Main
  \/ \E d \in Dirs, f \in FileNames : AddFile(d, f)
  \/ \E d \in Dirs, f \in FileNames : RemoveFile(d, f)
  \/ \E d \in Dirs : RemoveIndex(d)

(***************************************************************************)
(* Material catalog: MaterialSelector                                      *)
(***************************************************************************)

\* A material id is kept as its words ("leather-brown" is the words leather
\* and brown); id.includes(word) is then the presence of the word.
IdIncludes(id, word) == \E i \in 1..Len(id) : id[i] = word

Material(id, name, color, preview) ==
  [ id |-> id, name |-> name, color |-> color, preview |-> preview ]

\* chairMaterials, lines 58-107
chairMaterials ==
  << Material(<< "leather", "brown" >>, "Brown Leather", "#8B4513",
              "linear-gradient(135deg, #8B4513, #A0522D)"),
     Material(<< "leather", "black" >>, "Black Leather", "#1a1a1a",
              "linear-gradient(135deg, #1a1a1a, #333333)"),
     Material(<< "fabric", "gray" >>, "Gray Fabric", "#6B7280",
              "linear-gradient(135deg, #6B7280, #9CA3AF)"),
     Material(<< "fabric", "blue" >>, "Blue Fabric", "#3B82F6",
              "linear-gradient(135deg, #3B82F6, #60A5FA)"),
     Material(<< "wood", "oak" >>, "Oak Wood", "#DEB887",
              "linear-gradient(135deg, #DEB887, #F5DEB3)"),
     Material(<< "wood", "walnut" >>, "Walnut", "#654321",
              "linear-gradient(135deg, #654321, #8B4513)"),
     Material(<< "metal", "chrome" >>, "Chrome", "#C0C0C0",
              "linear-gradient(135deg, #C0C0C0, #E6E6FA)"),
     Material(<< "metal", "black" >>, "Black Metal", "#2C2C2C",
              "linear-gradient(135deg, #2C2C2C, #4A4A4A)") >>

IsLeather(m) == IdIncludes(m.id, "leather")

IsWoodOrMetal(m) == IdIncludes(m.id, "wood") \/ IdIncludes(m.id, "metal")

\* sofaMaterials, lines 109-135
sofaMaterials ==
  << Material(<< "velvet", "emerald" >>, "Emerald Velvet", "#50C878",
              "linear-gradient(135deg, #50C878, #7FFFD4)"),
     Material(<< "velvet", "burgundy" >>, "Burgundy Velvet", "#800020",
              "linear-gradient(135deg, #800020, #B22222)"),
     Material(<< "linen", "beige" >>, "Beige Linen", "#F5F5DC",
              "linear-gradient(135deg, #F5F5DC, #FFFACD)"),
     Material(<< "cotton", "white" >>, "White Cotton", "#FFFFFF",
              "linear-gradient(135deg, #FFFFFF, #F8F8FF)") >>
  \o SelectSeq(chairMaterials, IsLeather)

\* A mutant of defaultMaterials: the first two entries change places.
MutDefaultSwapped ==
  << Material(<< "default", "blue" >>, "Blue", "#3B82F6",
              "linear-gradient(135deg, #3B82F6, #60A5FA)"),
     Material(<< "default", "red" >>, "Red", "#EF4444",
              "linear-gradient(135deg, #EF4444, #F87171)"),
     Material(<< "default", "green" >>, "Green", "#10B981",
              "linear-gradient(135deg, #10B981, #34D399)"),
     Material(<< "default", "purple" >>, "Purple", "#8B5CF6",
              "linear-gradient(135deg, #8B5CF6, #A78BFA)") >>

\* the array literal returned at lines 149-174
defaultMaterials ==
  << Material(<< "default", "red" >>, "Red", "#EF4444",
              "linear-gradient(135deg, #EF4444, #F87171)"),
     Material(<< "default", "blue" >>, "Blue", "#3B82F6",
              "linear-gradient(135deg, #3B82F6, #60A5FA)"),
     Material(<< "default", "green" >>, "Green", "#10B981",
              "linear-gradient(135deg, #10B981, #34D399)"),
     Material(<< "default", "purple" >>, "Purple", "#8B5CF6",
              "linear-gradient(135deg, #8B5CF6, #A78BFA)") >>

KwChair == << "c", "h", "a", "i", "r" >>
KwSofa  == << "s", "o", "f", "a" >>
KwCouch == << "c", "o", "u", "c", "h" >>
KwTable == << "t", "a", "b", "l", "e" >>

\* A mutant of getModelMaterials: 'table' is tested before 'chair'.
MutMaterialsTableFirst(modelName) ==
  LET lowerName == ToLowerCase(modelName)
  IN  IF Includes(lowerName, KwTable)
        THEN SelectSeq(chairMaterials, IsWoodOrMetal)
      ELSE IF Includes(lowerName, KwChair) THEN chairMaterials
      ELSE IF Includes(lowerName, KwSofa) \/ Includes(lowerName, KwCouch)
        THEN sofaMaterials
      ELSE defaultMaterials

\* getModelMaterials, lines 137-175 of MaterialSelector
getModelMaterials(modelName) ==
  LET lowerName == ToLowerCase(modelName)
  IN  IF Includes(lowerName, KwChair) THEN chairMaterials
      ELSE IF Includes(lowerName, KwSofa) \/ Includes(lowerName, KwCouch)
        THEN sofaMaterials
      ELSE IF Includes(lowerName, KwTable)
        THEN SelectSeq(chairMaterials, IsWoodOrMetal)
      ELSE defaultMaterials

NotCalled == << "not called" >>

Frag(text, kind) == [ text |-> text, kind |-> kind ]

\* Pieces of model names, each labelled with the keyword it spells when
\* letter case is ignored ("none": it spells no keyword).
Fragments ==
  { Frag(<< >>, "none"),
    Frag(<< "c", "h", "a", "i", "r" >>, "chair"),
    Frag(<< "C", "h", "a", "i", "r" >>, "chair"),
    Frag(<< "C", "H", "A", "I", "R" >>, "chair"),
    Frag(<< "s", "o", "f", "a" >>, "sofa"),
    Frag(<< "S", "o", "f", "a" >>, "sofa"),
    Frag(<< "c", "o", "u", "c", "h" >>, "couch"),
    Frag(<< "t", "a", "b", "l", "e" >>, "table"),
    Frag(<< "T", "A", "B", "L", "E" >>, "table"),
    Frag(<< "l", "a", "m", "p" >>, "none"),
    Frag(<< "l", "o", "v", "e", "s", "e", "a", "t", "-" >>, "none"),
    Frag(<< "c", "h", "a", "i" >>, "none"),
    Frag(<< "t", "a", "b", "l" >>, "none") }

MName == mparts[1].text \o mparts[2].text

MKinds == { mparts[1].kind, mparts[2].kind }

MaterialsInit ==
  /\ mparts \in Fragments \X Fragments
  /\ mresult = NotCalled

\* a call getModelMaterials(name)
CallGetModelMaterials ==
  /\ mresult = NotCalled
  /\ mresult' = getModelMaterials(MName)
  /\ UNCHANGED << mparts, ivars, avars >>

\* the caller moves on to another name
NextName ==
  /\ mresult # NotCalled
  /\ mparts' \in Fragments \X Fragments
  /\ mresult' = NotCalled
  /\ UNCHANGED << ivars, avars >>

MaterialsNext == CallGetModelMaterials \/ NextName

(***************************************************************************)
(* AR viewer: the two ARCamera components                                  *)
(*                                                                         *)
(* A handler runs against the state of the last render, and React commits  *)
(* the state it set (and runs the effects that depend on it) before the    *)
(* next event is handled: a handler and the commit that follows it are one *)
(* step.  The code after an await is a step of its own.                    *)
(***************************************************************************)

Null == << >>
NoName == "null"

\* The catalog entries a user can pick, with their spelling.
ModelNames == { "chair", "lamp" }

NameChars(name) ==
  IF name = "chair" THEN << "c", "h", "a", "i", "r" >>
  ELSE << "l", "a", "m", "p" >>

ControlModes == { "move", "rotate", "scale" }

\* An optional number: << >> is undefined, << v >> is v.
Undef == << >>
Or0(o) == IF o = Undef THEN 0 ELSE o[1]

\* The deltas handed to transformModel.
Delta(dx, dy, dz) == [ x |-> dx, y |-> dy, z |-> dz ]

Deltas ==
  { Delta(<< 1 >>, Undef, Undef),
    Delta(Undef, << 1 >>, Undef),
    Delta(<< -1 >>, << 1 >>, << 1 >>) }

RECURSIVE GCD(_, _)
GCD(a, b) == IF b = 0 THEN a ELSE GCD(b, a % b)

\* A scale factor as a fraction in lowest terms.
Ratio(n, d) == LET g == GCD(n, d) IN [ n |-> n \div g, d |-> d \div g ]

\* 1.5 / size for the sizes of the assets on offer
AssetScales == { Ratio(3, 4) }

Toast(title, kind) == [ title |-> title, variant |-> kind ]

\* videoRef.current is set while the <video> element is rendered
\* (variant 1: lines 399-407, variant 2: lines 934-940)
VideoRef ==
  mounted /\ (IF variant = 1 THEN cameraActive ELSE hasStarted)

\* model.id === modelId, first match (Array.prototype.find)
FindIndex(models, id) ==
  IF \E i \in 1..Len(models) : models[i].id = id
    THEN CHOOSE i \in 1..Len(models) :
           /\ models[i].id = id
           /\ \A j \in 1..(i - 1) : models[j].id # id
    ELSE 0

EntityIds == { arModels[i].id : i \in 1..Len(arModels) }

AbsentId == << "ghost", 0 >>

Other == [ op |-> "other" ]

camVars   == << hasStarted, cameraActive, srcObject, live, nStreams, camPending >>
sceneVars == << sceneRef, nScenes, canvasInDoc, raf >>
modelVars == << sceneNodes, nodeT, arModels, selectedModel >>
loadVars  == << isLoading, activeModel, loads, nLoads >>

MaxStreams == 1

\* The number of handler calls a session makes.
MaxOps == 4

\* A handler is called by the user.
UserCall ==
  /\ mounted
  /\ nOps < MaxOps
  /\ nOps' = nOps + 1

(***************************************************************************)
(* Camera                                                                  *)
(***************************************************************************)

\* The scene effect's body, lines 113-141 (variant 1): a new scene, camera
\* and renderer, the canvas appended to the mount element, the render loop
\* started.  It runs when a commit changes cameraActive to true.
SceneEffectRuns ==
  /\ sceneRef' = nScenes + 1
  /\ nScenes' = nScenes + 1
  /\ canvasInDoc' = TRUE
  /\ raf' = raf + 1

\* The scene effect's cleanup, lines 143-151 (variant 1) and 718-726
\* (variant 2): the scheduled frame is cancelled; the canvas leaves the
\* document with the mount element, which the same commit removes.
SceneCleanupRuns ==
  /\ raf' = 0
  /\ canvasInDoc' = FALSE
  /\ UNCHANGED << sceneRef, nScenes >>

\* What a start request saw: whether the viewer was idle, and whether the
\* request before it was denied.
StartSeen ==
  [ op    |-> "start",
    idle  |-> ~cameraActive /\ srcObject = 0,
    retry |-> last.op = "denied" ]

\* startCamera up to its await: variant 1 lines 154-159, variant 2 lines
\* 730-736 (which asks for the camera only if the video element is there)
StartCamera ==
  /\ UserCall
  /\ camPending + nStreams < MaxStreams
  /\ camPending' = IF variant = 1 \/ VideoRef THEN camPending + 1 ELSE camPending
  /\ last' = StartSeen
  /\ toasts' = << >>
  /\ UNCHANGED << outside, variant, mounted, hasStarted, cameraActive, srcObject, live,
                  nStreams, sceneVars, modelVars, controlMode, loadVars, now >>

\* startARExperience, lines 877-880 (variant 2): startCamera runs before the
\* render that shows the video element
StartARExperience ==
  /\ UserCall
  /\ variant = 2
  /\ camPending + nStreams < MaxStreams
  /\ hasStarted' = TRUE
  /\ camPending' = IF VideoRef THEN camPending + 1 ELSE camPending
  /\ last' = StartSeen
  /\ toasts' = << >>
  /\ UNCHANGED << outside, variant, mounted, cameraActive, srcObject, live, nStreams,
                  sceneVars, modelVars, controlMode, loadVars, now >>

\* getUserMedia resolves with a stream: variant 1 lines 161-168, variant 2
\* lines 737-739 (a video element gone by then makes line 737 throw, which
\* line 741 catches)
CameraGranted ==
  /\ camPending > 0
  /\ camPending' = camPending - 1
  /\ nStreams' = nStreams + 1
  /\ live' = live \cup { nStreams + 1 }
  /\ IF VideoRef
       THEN /\ srcObject' = nStreams + 1
            /\ cameraActive' = TRUE
            /\ toasts' = IF variant = 1
                           THEN << Toast("Camera Started", "default") >>
                           ELSE << >>
            /\ IF variant = 1 /\ ~cameraActive
                 THEN SceneEffectRuns
                 ELSE UNCHANGED sceneVars
       ELSE /\ toasts' = IF variant = 2
                           THEN << Toast("Camera Error", "destructive") >>
                           ELSE << >>
            /\ UNCHANGED << srcObject, cameraActive, sceneVars >>
  /\ last' = [ op |-> "granted", stream |-> nStreams + 1 ]
  /\ UNCHANGED << outside, variant, mounted, hasStarted, modelVars, controlMode,
                  loadVars, now, nOps >>

\* A mutant of CameraDenied: the failure is swallowed without a notification.
MutCameraDeniedSilent ==
  /\ camPending > 0
  /\ camPending' = camPending - 1
  /\ toasts' = << >>
  /\ last' = [ op |-> "denied", active |-> cameraActive, src |-> srcObject,
               again |-> last.op = "start" /\ last.retry ]
  /\ UNCHANGED << outside, variant, mounted, hasStarted, cameraActive, srcObject, live,
                  nStreams, sceneVars, modelVars, controlMode, loadVars, now,
                  nOps >>

\* getUserMedia rejects: variant 1 lines 169-176, variant 2 lines 741-748
CameraDenied ==
  /\ camPending > 0
  /\ camPending' = camPending - 1
  /\ toasts' = << Toast("Camera Error", "destructive") >>
  /\ last' = [ op |-> "denied", active |-> cameraActive, src |-> srcObject,
               again |-> last.op = "start" /\ last.retry ]
  /\ UNCHANGED << outside, variant, mounted, hasStarted, cameraActive, srcObject, live,
                  nStreams, sceneVars, modelVars, controlMode, loadVars, now,
                  nOps >>

\* What a call of stopCamera saw: whether the camera was active, the stream
\* on the video element and the loads in flight.
StopSeen ==
  [ op       |-> "stop",
    active   |-> cameraActive,
    stream   |-> srcObject,
    inFlight |-> { l.lid : l \in loads } ]

\* A mutant of StopCamera: the loads in flight are aborted.
MutStopCameraAborts ==
  /\ UserCall
  /\ IF VideoRef /\ srcObject # 0
       THEN live' = live \ { srcObject } /\ srcObject' = 0
       ELSE UNCHANGED << live, srcObject >>
  /\ cameraActive' = FALSE
  /\ IF variant = 1 /\ cameraActive
       THEN SceneCleanupRuns
       ELSE UNCHANGED sceneVars
  /\ loads' = {}
  /\ isLoading' = FALSE
  /\ activeModel' = NoName
  /\ last' = StopSeen
  /\ toasts' = << >>
  /\ UNCHANGED << outside, variant, mounted, hasStarted, nStreams, camPending,
                  modelVars, controlMode, nLoads, now >>

\* stopCamera, lines 179-186 (variant 1) and 752-759 (variant 2), with the
\* commit of cameraActive = false: in variant 1 it unmounts the video and
\* mount elements and runs the scene effect's cleanup; in variant 2 the
\* scene effect has no dependencies and nothing of it runs.
StopCamera ==
  /\ UserCall
  /\ IF VideoRef /\ srcObject # 0
       THEN live' = live \ { srcObject } /\ srcObject' = 0
       ELSE UNCHANGED << live, srcObject >>
  /\ cameraActive' = FALSE
  /\ IF variant = 1 /\ cameraActive
       THEN SceneCleanupRuns
       ELSE UNCHANGED sceneVars
  /\ last' = StopSeen
  /\ toasts' = << >>
  /\ UNCHANGED << outside, variant, mounted, hasStarted, nStreams, camPending,
                  modelVars, controlMode, loadVars, now >>

\* The component is unmounted: the effect cleanups run (lines 143-151,
\* 718-726); nothing stops the stream.
Unmount ==
  /\ UserCall
  /\ mounted' = FALSE
  /\ IF (variant = 1 /\ cameraActive) \/ (variant = 2 /\ sceneRef # 0)
       THEN SceneCleanupRuns
       ELSE UNCHANGED sceneVars
  /\ last' = Other
  /\ toasts' = << >>
  /\ UNCHANGED << outside, variant, camVars, modelVars, controlMode, loadVars, now >>

(***************************************************************************)
(* Spawning a model                                                        *)
(***************************************************************************)

MaxLoads == 2
MaxBurst == 2

Load(lid, name, stage) == [ lid |-> lid, name |-> name, stage |-> stage ]

\* Calls spawnModel(names[1]), spawnModel(names[2]), ... made in one turn
\* of the event loop, that is, on the handler of one render: lines 209-223
\* (variant 1) and 762-797 (variant 2) up to the await.  Every call tests
\* the isLoading of that render.
SpawnModel(names) ==
  /\ UserCall
  /\ nLoads + Len(names) <= MaxLoads
  /\ IF sceneRef # 0 /\ ~isLoading
       THEN /\ isLoading' = TRUE
            /\ activeModel' = names[Len(names)]
            /\ loads' = loads \cup
                 { Load(nLoads + i, names[i], "asset") : i \in 1..Len(names) }
            /\ nLoads' = nLoads + Len(names)
            /\ toasts' = [i \in 1..Len(names) |-> Toast("Loading Model", "default")]
       ELSE toasts' = << >> /\ UNCHANGED loadVars
  /\ last' = [ op |-> "spawn", calls |-> Len(names),
               accepted |-> (sceneRef # 0 /\ ~isLoading),
               inFlight |-> Cardinality(loads),
               resolved |-> last.op \in { "loadFail", "inserted" },
               afterFail |-> last.op = "loadFail" ]
  /\ UNCHANGED << outside, variant, mounted, camVars, sceneVars, modelVars, controlMode,
                  now >>

\* the loader's progress callback: lines 236-246 and 784-791
LoadProgress(l) ==
  /\ l \in loads
  /\ l.stage = "asset"
  /\ toasts' = << Toast(IF variant = 1 THEN "Loading Model" ELSE "Loading",
                        "default") >>
  /\ last' = Other
  /\ UNCHANGED << outside, variant, mounted, camVars, sceneVars, modelVars, controlMode,
                  loadVars, now, nOps >>

\* A mutant of Finally: the loading flag is not released.
MutFinallyKeepsFlag(l) ==
  /\ loads' = loads \ { l }
  /\ UNCHANGED << isLoading, activeModel, nLoads >>

\* finally: lines 331-334 and 846-849 (state of an unmounted component is
\* not updated)
Finally(l) ==
  /\ loads' = loads \ { l }
  /\ isLoading' = IF mounted THEN FALSE ELSE isLoading
  /\ activeModel' = IF mounted THEN NoName ELSE activeModel
  /\ UNCHANGED nLoads

\* A mutant of LoadFailed: the failed load leaves a node in the scene.
MutLoadFailedPartial(l) ==
  /\ l \in loads
  /\ l.stage = "asset"
  /\ toasts' = << Toast("Error", "destructive") >>
  /\ Finally(l)
  /\ sceneNodes' = sceneNodes \cup { << sceneRef, l.lid >> }
  /\ last' = [ op |-> "loadFail", lid |-> l.lid, models |-> arModels,
               scene |-> sceneNodes, nodes |-> nodeT ]
  /\ UNCHANGED << outside, variant, mounted, camVars, sceneVars, nodeT, arModels,
                  selectedModel, controlMode, now, nOps >>

\* the loader's error callback and the catch block: lines 247-250 with
\* 323-334, and 792-795 with 839-849
LoadFailed(l) ==
  /\ l \in loads
  /\ l.stage = "asset"
  /\ toasts' = << Toast(IF variant = 1 THEN "Error Loading Model" ELSE "Error",
                        "destructive") >>
  /\ Finally(l)
  /\ last' = [ op |-> "loadFail", lid |-> l.lid, models |-> arModels,
               scene |-> sceneNodes, nodes |-> nodeT ]
  /\ UNCHANGED << outside, variant, mounted, camVars, sceneVars, modelVars, controlMode,
                  now, nOps >>

\* the node as lines 254-273 (800-813) leave it: two units in front of the
\* camera at (0, 0, 5) looking down -z, scaled to 1.5 / size
FreshNode(scale) ==
  [ position |-> << 0, 0, 3 >>, rotation |-> << 0, 0, 0 >>, scale |-> scale ]

\* A mutant of NewModel: no material is selected at creation.
MutNewModelNoMaterial(l, t) ==
  [ id               |-> << l.name, now >>,
    name             |-> l.name,
    node             |-> l.lid,
    position         |-> t.position,
    rotation         |-> t.rotation,
    scale            |-> t.scale,
    locked           |-> FALSE,
    selectedMaterial |-> Null,
    materials        |-> getModelMaterials(NameChars(l.name)) ]

\* newModel, lines 301-312 and 819-830
NewModel(l, t) ==
  LET modelMaterials == getModelMaterials(NameChars(l.name))
  IN  [ id               |-> << l.name, now >>,
        name             |-> l.name,
        node             |-> l.lid,
        position         |-> t.position,
        rotation         |-> t.rotation,
        scale            |-> t.scale,
        locked           |-> FALSE,
        selectedMaterial |-> IF modelMaterials = << >> THEN Null
                             ELSE modelMaterials[1].id,
        materials        |-> modelMaterials ]

\* Whether the step before this one of load l was a stopCamera call made
\* while l was in flight.
StoppedInFlight(l) ==
  last.op = "stop" /\ l.lid \in last.inFlight

\* What the insertion of a loaded asset saw: the list, the scene graph and
\* the nodes before it, how the mind file fetch ended ("none" in variant 2,
\* which fetches none), and whether the camera was stopped under the load.
InsertSeen(l, outcome) ==
  [ op       |-> "inserted",
    lid      |-> l.lid,
    name     |-> l.name,
    mind     |-> outcome,
    models   |-> arModels,
    scene    |-> sceneNodes,
    selected |-> selectedModel,
    stopped  |-> \/ StoppedInFlight(l)
                 \/ (last.op = "loaded" /\ last.lid = l.lid /\ last.stopped) ]

\* A mutant of Insert: the new entity is put at the head of the list.
MutInsertPrepends(l, t) ==
  /\ sceneNodes' = sceneNodes \cup { << sceneRef, l.lid >> }
  /\ arModels' = IF mounted THEN << NewModel(l, t) >> \o arModels ELSE arModels
  /\ selectedModel' = IF variant = 2 /\ mounted THEN << l.name, now >>
                      ELSE selectedModel
  /\ Finally(l)

\* lines 314-315 and 816, 832-833, then finally
Insert(l, t) ==
  /\ sceneNodes' = sceneNodes \cup { << sceneRef, l.lid >> }
  /\ arModels' = IF mounted THEN Append(arModels, NewModel(l, t)) ELSE arModels
  /\ selectedModel' = IF variant = 2 /\ mounted THEN << l.name, now >>
                      ELSE selectedModel
  /\ Finally(l)

\* the loader's success callback: lines 233-235 and 254-281 (variant 1, which
\* then awaits the mind file), lines 783 and 799-838 (variant 2)
LoadSucceeded(l, scale) ==
  /\ l \in loads
  /\ l.stage = "asset"
  /\ nodeT' = [n \in DOMAIN nodeT \cup { l.lid } |->
                 IF n = l.lid THEN FreshNode(scale) ELSE nodeT[n]]
  /\ IF variant = 1
       THEN /\ loads' = (loads \ { l }) \cup { Load(l.lid, l.name, "mind") }
            /\ toasts' = << >>
            /\ UNCHANGED << sceneNodes, arModels, selectedModel, isLoading,
                            activeModel, nLoads >>
       ELSE /\ Insert(l, FreshNode(scale))
            /\ toasts' = << Toast("Model Loaded", "default") >>
  /\ last' = IF variant = 1
               THEN [ op |-> "loaded", lid |-> l.lid, stopped |-> StoppedInFlight(l) ]
               ELSE InsertSeen(l, "none")
  /\ UNCHANGED << outside, variant, mounted, camVars, sceneVars, controlMode, now,
                  nOps >>

MindOutcomes == { "ok", "bad json", "not ok", "network error" }

\* A mutant of MindSettled: a mind file that cannot be loaded fails the spawn.
MutMindSettledStrict(l, outcome) ==
  /\ l \in loads
  /\ l.stage = "mind"
  /\ IF outcome = "ok"
       THEN /\ Insert(l, nodeT[l.lid])
            /\ toasts' = << Toast("Tracking Data Loaded", "default"),
                            Toast("Model Loaded", "default") >>
       ELSE /\ Finally(l)
            /\ toasts' = << Toast("Error Loading Model", "destructive") >>
            /\ UNCHANGED << sceneNodes, arModels, selectedModel >>
  /\ last' = InsertSeen(l, outcome)
  /\ UNCHANGED << outside, variant, mounted, camVars, sceneVars, nodeT, controlMode,
                  now, nOps >>

\* variant 1, lines 283-334: the mind file fetch settles, in any way
MindSettled(l, outcome) ==
  /\ l \in loads
  /\ l.stage = "mind"
  /\ Insert(l, nodeT[l.lid])
  /\ toasts' = (IF outcome = "ok"
                  THEN << Toast("Tracking Data Loaded", "default") >>
                  ELSE << >>)
               \o << Toast("Model Loaded", "default") >>
  /\ last' = InsertSeen(l, outcome)
  /\ UNCHANGED << outside, variant, mounted, camVars, sceneVars, nodeT, controlMode,
                  now, nOps >>

MaxClock == 1

\* time passes
Tick ==
  /\ now < MaxClock
  /\ now' = now + 1
  /\ UNCHANGED << outside, variant, mounted, camVars, sceneVars, modelVars, controlMode,
                  loadVars, toasts, nOps, last >>

(***************************************************************************)
(* Entities: lock, transform, selection, material, removal                 *)
(***************************************************************************)

AddVec(v, delta) ==
  << v[1] + Or0(delta.x), v[2] + Or0(delta.y), v[3] + Or0(delta.z) >>

\* model.scale.multiplyScalar(1 + (delta.x || 0) * 0.1), lines 369-370
ScaleBy(scale, delta) ==
  Ratio(scale.n * (10 + Or0(delta.x)), scale.d * 10)

\* the switch of lines 357-372 (variant 1)
ApplyMode(t, mode, delta) ==
  IF mode = "move" THEN [t EXCEPT !.position = AddVec(@, delta)]
  ELSE IF mode = "rotate" THEN [t EXCEPT !.rotation = AddVec(@, delta)]
  ELSE [t EXCEPT !.scale = ScaleBy(@, delta)]

\* lines 857-859 (variant 2): the position moves, whatever the mode
MovePosition(t, delta) ==
  [t EXCEPT !.position = AddVec(@, delta)]

\* What a call of transformModel saw: the list and the nodes' transforms
\* before it, the entity it looked up, whether the call before it was the
\* toggleModelLock that unlocked this id, and how many calls in a row scaled
\* this entity by this delta.x.
TransformSeen(id, delta) ==
  LET i       == FindIndex(arModels, id)
      present == i # 0
      locked  == present /\ arModels[i].locked
      scaling == present /\ ~locked /\ controlMode = "scale"
      again   == /\ scaling
                 /\ last.op = "transform"
                 /\ last.n > 0
                 /\ last.id = id
                 /\ last.delta.x = delta.x
  IN  [ op      |-> "transform",
        id      |-> id,
        delta   |-> delta,
        mode    |-> controlMode,
        present |-> present,
        locked  |-> locked,
        freed   |-> last.op = "toggle" /\ last.id = id /\ last.unlocked,
        node    |-> IF present THEN arModels[i].node ELSE 0,
        models  |-> arModels,
        nodes   |-> nodeT,
        n       |-> IF again THEN last.n + 1 ELSE IF scaling THEN 1 ELSE 0,
        base    |-> IF again THEN last.base
                    ELSE IF scaling THEN nodeT[arModels[i].node].scale
                    ELSE Null ]

\* transformModel(modelId, delta): lines 351-373 (variant 1), 853-865
\* (variant 2)
TransformModel(id, delta) ==
  /\ UserCall
  /\ IF variant = 1
       THEN LET i == FindIndex(arModels, id)
            IN  /\ IF i = 0 \/ arModels[i].locked
                     THEN UNCHANGED nodeT
                     ELSE nodeT' = [nodeT EXCEPT ![arModels[i].node] =
                                      ApplyMode(@, controlMode, delta)]
                /\ UNCHANGED arModels
       ELSE LET hit(i) == arModels[i].id = id /\ ~arModels[i].locked
                moved  == { arModels[i].node : i \in { k \in 1..Len(arModels) : hit(k) } }
            IN  /\ nodeT' = [n \in DOMAIN nodeT |->
                               IF n \in moved THEN MovePosition(nodeT[n], delta)
                               ELSE nodeT[n]]
                /\ arModels' = [i \in 1..Len(arModels) |->
                                  IF hit(i)
                                    THEN [arModels[i] EXCEPT !.position =
                                            nodeT'[arModels[i].node].position]
                                    ELSE arModels[i]]
  /\ last' = TransformSeen(id, delta)
  /\ toasts' = << >>
  /\ UNCHANGED << outside, variant, mounted, camVars, sceneVars, sceneNodes,
                  selectedModel, controlMode, loadVars, now >>

\* What a call of toggleModelLock saw: the list and the nodes before it,
\* whether an entity with the id was locked, and, when the call before it
\* was a toggle of the same id, the list before that one.
ToggleSeen(id) ==
  LET twice == last.op = "toggle" /\ last.id = id
  IN  [ op       |-> "toggle",
        id       |-> id,
        unlocked |-> \E i \in 1..Len(arModels) :
                       arModels[i].id = id /\ arModels[i].locked,
        models   |-> arModels,
        nodes    |-> nodeT,
        twice    |-> twice,
        prev     |-> IF twice THEN last.models ELSE << >> ]

\* A mutant of ToggleModelLock: every entity's flag is flipped.
MutToggleAll(id) ==
  /\ UserCall
  /\ arModels' = [i \in 1..Len(arModels) |-> [arModels[i] EXCEPT !.locked = ~@]]
  /\ toasts' = << >>
  /\ last' = ToggleSeen(id)
  /\ UNCHANGED << outside, variant, mounted, camVars, sceneVars, sceneNodes, nodeT,
                  selectedModel, controlMode, loadVars, now >>

\* toggleModelLock(modelId): lines 337-349 (variant 1), 868-874 (variant 2)
ToggleModelLock(id) ==
  /\ UserCall
  /\ arModels' = [i \in 1..Len(arModels) |->
                    IF arModels[i].id = id
                      THEN [arModels[i] EXCEPT !.locked = ~@]
                      ELSE arModels[i]]
  /\ toasts' = IF variant = 1
                 THEN LET i == FindIndex(arModels, id)
                      IN  << Toast(IF i # 0 /\ arModels[i].locked
                                     THEN "Model Unlocked" ELSE "Model Locked",
                                   "default") >>
                 ELSE << >>
  /\ last' = ToggleSeen(id)
  /\ UNCHANGED << outside, variant, mounted, camVars, sceneVars, sceneNodes, nodeT,
                  selectedModel, controlMode, loadVars, now >>

\* setControlMode(mode): lines 553, 562, 571 and 950, 958, 966
SetControlMode(mode) ==
  /\ UserCall
  /\ controlMode # mode
  /\ controlMode' = mode
  /\ last' = Other
  /\ toasts' = << >>
  /\ UNCHANGED << outside, variant, mounted, camVars, sceneVars, modelVars, loadVars,
                  now >>

\* setSelectedModel(model.id): line 525 (variant 1)
SelectModel(id) ==
  /\ UserCall
  /\ variant = 1
  /\ id \in EntityIds
  /\ selectedModel # id
  /\ selectedModel' = id
  /\ last' = Other
  /\ toasts' = << >>
  /\ UNCHANGED << outside, variant, mounted, camVars, sceneVars, sceneNodes, nodeT,
                  arModels, controlMode, loadVars, now >>

\* A mutant of HandleMaterialSelect: a locked entity keeps its material.
MutMaterialSelectLockGated(id, materialId) ==
  /\ UserCall
  /\ variant = 1
  /\ arModels' = [i \in 1..Len(arModels) |->
                    IF arModels[i].id = id /\ ~arModels[i].locked
                      THEN [arModels[i] EXCEPT !.selectedMaterial = materialId]
                      ELSE arModels[i]]
  /\ toasts' = << Toast("Material Applied", "default") >>
  /\ last' = [ op |-> "material", id |-> id, material |-> materialId,
               models |-> arModels, nodes |-> nodeT ]
  /\ UNCHANGED << outside, variant, mounted, camVars, sceneVars, sceneNodes, nodeT,
                  selectedModel, controlMode, loadVars, now >>

\* handleMaterialSelect(modelId, materialId), lines 375-394 (variant 1); the
\* node of a loaded asset is a THREE.Group, never a THREE.Mesh, so line 381
\* is not reached
HandleMaterialSelect(id, materialId) ==
  /\ UserCall
  /\ variant = 1
  /\ arModels' = [i \in 1..Len(arModels) |->
                    IF arModels[i].id = id
                      THEN [arModels[i] EXCEPT !.selectedMaterial = materialId]
                      ELSE arModels[i]]
  /\ toasts' = << Toast("Material Applied", "default") >>
  /\ last' = [ op |-> "material", id |-> id, material |-> materialId,
               models |-> arModels, nodes |-> nodeT ]
  /\ UNCHANGED << outside, variant, mounted, camVars, sceneVars, sceneNodes, nodeT,
                  selectedModel, controlMode, loadVars, now >>

\* the remove button's handler, lines 1011-1016 (variant 2); the button is
\* rendered while an entity is selected (line 992)
RemoveSelected ==
  /\ UserCall
  /\ variant = 2
  /\ selectedModel # Null
  /\ arModels' = SelectSeq(arModels, LAMBDA m : m.id # selectedModel)
  /\ selectedModel' = Null
  /\ last' = [ op |-> "remove", id |-> selectedModel, models |-> arModels,
               scene |-> sceneNodes ]
  /\ toasts' = << >>
  /\ UNCHANGED << outside, variant, mounted, camVars, sceneVars, sceneNodes, nodeT,
                  controlMode, loadVars, now >>

(***************************************************************************)
(* The viewer's specification                                              *)
(***************************************************************************)

\* The component as constructed: lines 32-46 and 206-207 (variant 1),
\* 641-659 (variant 2).
InitMount ==
  /\ variant \in { 1, 2 }
  /\ mounted = TRUE
  /\ hasStarted = FALSE
  /\ cameraActive = FALSE
  /\ srcObject = 0
  /\ live = {}
  /\ nStreams = 0
  /\ camPending = 0
  /\ sceneRef = 0
  /\ nScenes = 0
  /\ canvasInDoc = FALSE
  /\ raf = 0

\* The camera-active configuration the handlers are written for: what line
\* 161-163 (737-739) and the scene effect's body (113-141, 677-715) set up
\* once the video and mount elements are there.  The properties of
\* stopCamera, spawnModel and the entity handlers are about this
\* configuration; whether a session gets from InitMount to it is a property
\* of the start-up actions.
InitActive ==
  /\ variant \in { 1, 2 }
  /\ mounted = TRUE
  /\ hasStarted = (variant = 2)
  /\ cameraActive = TRUE
  /\ srcObject = 1
  /\ live = { 1 }
  /\ nStreams = 1
  /\ camPending = 0
  /\ sceneRef = 1
  /\ nScenes = 1
  /\ canvasInDoc = TRUE
  /\ raf = 1

Init ==
  /\ InitMount \/ InitActive
  /\ sceneNodes = {}
  /\ nodeT = << >>
  /\ arModels = << >>
  /\ selectedModel = Null
  /\ controlMode = "move"
  /\ isLoading = FALSE
  /\ activeModel = NoName
  /\ loads = {}
  /\ nLoads = 0
  /\ now = 0
  /\ toasts = << >>
  /\ nOps = 0
  /\ last = Other

Bursts ==
  UNION { [1..k -> ModelNames] : k \in 1..MaxBurst }

ViewerNext ==
  \/ StartCamera
  \/ StartARExperience
  \/ CameraGranted
  \/ CameraDenied
  \/ StopCamera
  \/ Unmount
  \/ \E names \in Bursts : SpawnModel(names)
  \/ \E l \in loads : LoadProgress(l)
  \/ \E l \in loads : LoadFailed(l)
  \/ \E l \in loads, scale \in AssetScales : LoadSucceeded(l, scale)
  \/ \E l \in loads, outcome \in MindOutcomes : MindSettled(l, outcome)
  \/ Tick
  \/ \E id \in EntityIds \cup { AbsentId }, delta \in Deltas :
       TransformModel(id, delta)
  \/ \E id \in EntityIds \cup { AbsentId } : ToggleModelLock(id)
  \/ \E mode \in ControlModes : SetControlMode(mode)
  \/ \E id \in EntityIds : SelectModel(id)
  \/ \E i \in 1..Len(arModels) :
       \E k \in { 1, Len(arModels[i].materials) } :
         HandleMaterialSelect(arModels[i].id, arModels[i].materials[k].id)
  \/ RemoveSelected

\* The indexer, with the catalog and the viewer at rest.
IndexIdle ==
  /\ files = [d \in Dirs |-> {}]
  /\ dirExists = [d \in Dirs |-> FALSE]
  /\ indexJson = [d \in Dirs |-> NoFile]
  /\ gen = [d \in Dirs |-> NoGen]
  /\ changes = 0
  /\ nGen = 0

MaterialsIdle ==
  /\ mparts = << Frag(<< >>, "none"), Frag(<< >>, "none") >>
  /\ mresult = NotCalled

ViewerIdle ==
  /\ InitMount
  /\ variant = 1
  /\ sceneNodes = {}
  /\ nodeT = << >>
  /\ arModels = << >>
  /\ selectedModel = Null
  /\ controlMode = "move"
  /\ isLoading = FALSE
  /\ activeModel = NoName
  /\ loads = {}
  /\ nLoads = 0
  /\ now = 0
  /\ toasts = << >>
  /\ nOps = 0
  /\ last = Other

\* The viewer, with the indexer and the catalog at rest
ViewerStart == Init /\ IndexIdle /\ MaterialsIdle

Spec == ViewerStart /\ [][ViewerNext]_vars

\* The loader and the mind file fetch settle: every load in flight ends in
\* the success or the error callback (lines 233-235, 247-250, 783, 792-795)
\* and every fetch in a response or a rejection (lines 286-299).
Settle ==
  \E l \in loads :
    \/ LoadFailed(l)
    \/ \E scale \in AssetScales : LoadSucceeded(l, scale)
    \/ \E outcome \in MindOutcomes : MindSettled(l, outcome)

\* The viewer when no load and no fetch stays pending for ever
SpecSettling == Spec /\ WF_vars(Settle)

\* The asset indexer, with the catalog and the viewer at rest
IndexStart == IndexInit /\ MaterialsIdle /\ ViewerIdle

SpecIndex == IndexStart /\ [][IndexNext]_vars

\* The material catalog, with the indexer and the viewer at rest
MaterialsStart == MaterialsInit /\ IndexIdle /\ ViewerIdle

SpecMaterials == MaterialsStart /\ [][MaterialsNext]_vars

(***************************************************************************)
(* Properties of the viewer                                                *)
(***************************************************************************)

\* C1 as stated: at most one model load is in flight at any time, whatever
\* the interleaving of spawnModel calls, two calls made back to back before
\* the component renders again included.
C1_OneLoadInFlight ==
  Cardinality(loads) <= 1

\* The entities of the list `models` that carry the id.
Carrying(models, id) ==
  { i \in 1..Len(models) : models[i].id = id }

\* C2 as stated: transformModel called with the id of an entity leaves the
\* node's position, rotation and scale and the entity's record as they were
\* if the entity is locked, and applies the delta to the entity if it is
\* unlocked (a delta with a non-zero x changes its transform in every mode).
C2_LockGatesTransform ==
  last.op = "transform" =>
    \A i \in Carrying(last.models, last.id) :
      LET e      == last.models[i]
          before == last.nodes[e.node]
          after  == nodeT[e.node]
      IN  IF e.locked
            THEN after = before /\ arModels[i] = e
            ELSE Or0(last.delta.x) # 0 => after # before

\* The half of C2 that is about locked entities alone: a transformModel call
\* leaves every locked entity, and every node of a locked entity, as it was.
LockedEntitiesKeepTransform ==
  last.op = "transform" =>
    \A i \in 1..Len(last.models) :
      last.models[i].locked =>
        /\ arModels[i] = last.models[i]
        /\ nodeT[last.models[i].node] = last.nodes[last.models[i].node]

\* C3 as stated: after stopCamera in a camera-active state, the stream the
\* video element showed has no live track, the video element references no
\* stream, and the renderer's canvas is not in the document.
C3_StopReleasesAll ==
  (last.op = "stop" /\ last.active) =>
    /\ last.stream \notin live
    /\ srcObject = 0
    /\ ~canvasInDoc

\* C4: when the asset load of a spawnModel call fails, the entity list, the
\* scene graph and the nodes are as they were, the call has put no entity in
\* the list and no node in any scene, and an error notification is shown.
C4_FailureLeavesScene ==
  last.op = "loadFail" =>
    /\ arModels = last.models
    /\ sceneNodes = last.scene
    /\ nodeT = last.nodes
    /\ \A i \in 1..Len(arModels) : arModels[i].node # last.lid
    /\ \A sn \in sceneNodes : sn[2] # last.lid
    /\ \E i \in 1..Len(toasts) : toasts[i].variant = "destructive"

\* C4 witness: a load has failed while the list held an entity whose node is
\* in the scene.
C4_Witness ==
  /\ last.op = "loadFail"
  /\ Len(arModels) >= 1
  /\ sceneNodes # {}

RECURSIVE Pow(_, _)
Pow(b, k) == IF k = 0 THEN 1 ELSE b * Pow(b, k - 1)

\* C5 as stated: n successive transformModel calls with delta.x = d on an
\* unlocked entity in control mode 'scale' multiply the scale it had before
\* the first of them by (1 + d * 0.1)^n.
C5_ScaleCompounds ==
  (last.op = "transform" /\ last.n >= 1) =>
    nodeT[last.node].scale =
      Ratio(last.base.n * Pow(10 + Or0(last.delta.x), last.n),
            last.base.d * Pow(10, last.n))

\* C10 as stated: for a present, unlocked entity transformModel adds the
\* delta to the position in mode 'move' and to the rotation in mode 'rotate',
\* multiplies the scale by 1 + delta.x * 0.1 in mode 'scale', and leaves the
\* other two components as they were; for an id that no entity carries it
\* changes nothing.
C10_ModeSelectsComponent ==
  last.op = "transform" =>
    IF last.present
      THEN ~last.locked =>
             LET before == last.nodes[last.node]
                 after  == nodeT[last.node]
                 d      == last.delta
                 moved  == << before.position[1] + Or0(d.x),
                              before.position[2] + Or0(d.y),
                              before.position[3] + Or0(d.z) >>
                 turned == << before.rotation[1] + Or0(d.x),
                              before.rotation[2] + Or0(d.y),
                              before.rotation[3] + Or0(d.z) >>
                 scaled == Ratio(before.scale.n * (10 + Or0(d.x)),
                                 before.scale.d * 10)
             IN  /\ after.position =
                      IF last.mode = "move" THEN moved ELSE before.position
                 /\ after.rotation =
                      IF last.mode = "rotate" THEN turned ELSE before.rotation
                 /\ after.scale =
                      IF last.mode = "scale" THEN scaled ELSE before.scale
      ELSE /\ nodeT = last.nodes
           /\ arModels = last.models

\* C11 as stated: after stopCamera and after the component is unmounted no
\* camera track is live and no render callback is scheduled, and every live
\* stream is the one the video element holds, where a stop can release it.
C11_TeardownReleasesCamera ==
  /\ (last.op = "stop" \/ ~mounted) => (live = {} /\ raf = 0)
  /\ live \subseteq { srcObject }

\* C12 as stated: a start request made in the idle state asks for the camera;
\* when the camera is granted the viewer is camera-active, with the stream
\* on the video element and the scene, renderer and render loop set up; and
\* stopCamera puts it back to idle.
C12_StartReachesActive ==
  /\ (last.op = "start" /\ last.idle) => camPending > 0
  /\ last.op = "granted" =>
       /\ cameraActive
       /\ srcObject = last.stream
       /\ last.stream \in live
       /\ sceneRef # 0
       /\ canvasInDoc
       /\ raf = 1
  /\ last.op = "stop" => (~cameraActive /\ srcObject = 0)

\* C13: when getUserMedia fails, a destructive notification is shown,
\* cameraActive and the video element's stream are as they were (false and
\* none for a request made in the idle state).
C13_DenialHandled ==
  last.op = "denied" =>
    /\ \E i \in 1..Len(toasts) : toasts[i].variant = "destructive"
    /\ cameraActive = last.active
    /\ srcObject = last.src
    /\ (~last.active /\ last.src = 0) => (~cameraActive /\ srcObject = 0)

\* C13 witness: a start request made after a denied one was denied in turn,
\* in the idle state.
C13_Witness ==
  /\ last.op = "denied"
  /\ last.again
  /\ ~cameraActive
  /\ srcObject = 0

\* C20 as stated: at most one render callback is scheduled, one is scheduled
\* while the viewer is camera-active, and none is once it is back to idle.
C20_RenderLoopFollowsCamera ==
  /\ raf <= 1
  /\ (mounted /\ cameraActive) => raf = 1
  /\ ~cameraActive => raf = 0

\* C14: handleMaterialSelect(id, materialId), with a material of the
\* entity's own catalog, sets selectedMaterial of the entities carrying the
\* id, locked or not, and changes nothing else: no other entity, no other
\* field, no node's transform.
C14_MaterialSelectIgnoresLock ==
  last.op = "material" =>
    /\ Len(arModels) = Len(last.models)
    /\ \A i \in 1..Len(last.models) :
         arModels[i] =
           IF last.models[i].id = last.id
             THEN [last.models[i] EXCEPT !.selectedMaterial = last.material]
             ELSE last.models[i]
    /\ nodeT = last.nodes

\* C14 witness: a locked entity was given a material of its catalog other
\* than the one it had.
C14_Witness ==
  /\ last.op = "material"
  /\ \E i \in Carrying(last.models, last.id) :
       /\ last.models[i].locked
       /\ last.models[i].selectedMaterial # last.material
       /\ \E k \in 1..Len(last.models[i].materials) :
            last.models[i].materials[k].id = last.material

\* C15 as stated: no two entities of the list share an id.
C15_IdsUnique ==
  \A i, j \in 1..Len(arModels) : i # j => arModels[i].id # arModels[j].id

\* C16: toggleModelLock(id) flips the locked flag of the entities carrying
\* the id and changes nothing else: no other field, no other entity, not the
\* order or length of the list, no node's transform; a second toggle of the
\* same id right after the first restores the list.
C16_ToggleFlipsLockOnly ==
  last.op = "toggle" =>
    /\ Len(arModels) = Len(last.models)
    /\ \A i \in 1..Len(last.models) :
         arModels[i] =
           IF last.models[i].id = last.id
             THEN [last.models[i] EXCEPT !.locked = ~last.models[i].locked]
             ELSE last.models[i]
    /\ nodeT = last.nodes
    /\ last.twice => arModels = last.prev

\* C16 witness: an entity was toggled twice in a row while the list held an
\* entity with another id.
C16_Witness ==
  /\ last.op = "toggle"
  /\ last.twice
  /\ Carrying(arModels, last.id) # {}
  /\ \E i \in 1..Len(arModels) : arModels[i].id # last.id

\* At the step that resolves a load, by failing or by inserting the asset
\* (whatever the mind file fetch did), isLoading is false and activeModel is
\* null; the flag is never set with no load in flight; and a spawn request
\* made right after a load resolved is accepted.
FlagReleasedAtResolution ==
  mounted =>
    /\ last.op \in { "loadFail", "inserted" } =>
         (~isLoading /\ activeModel = NoName)
    /\ loads = {} => ~isLoading
    /\ (last.op = "spawn" /\ last.resolved /\ sceneRef # 0) => last.accepted

\* C17: every accepted spawn releases the loading flag: when the loader and
\* the mind file fetch settle, a mounted viewer that is loading comes to
\* isLoading = false and activeModel = null, whether the load failed or
\* succeeded, and the next spawn request is accepted.
C17_LoadingFlagReleased ==
  /\ []FlagReleasedAtResolution
  /\ (mounted /\ isLoading) ~> (~mounted \/ (~isLoading /\ activeModel = NoName))

\* C17 witness: a spawn request made right after a failed load was accepted.
C17_Witness ==
  /\ mounted
  /\ last.op = "spawn"
  /\ last.afterFail
  /\ last.accepted
  /\ isLoading

\* C18: the insertion of a loaded asset appends one entity to the list and
\* adds one node to the scene; the entity has the name asked for, is
\* unlocked, has the catalog of getModelMaterials(name) and its first entry
\* selected; the entities already listed are unchanged.
C18_SpawnAppendsOne ==
  (last.op = "inserted" /\ mounted) =>
    LET n == Len(last.models)
        e == arModels[Len(arModels)]
    IN  /\ Len(arModels) = n + 1
        /\ SubSeq(arModels, 1, n) = last.models
        /\ sceneNodes = last.scene \cup { << sceneRef, last.lid >> }
        /\ << sceneRef, last.lid >> \notin last.scene
        /\ e.name = last.name
        /\ e.node = last.lid
        /\ ~e.locked
        /\ e.materials = getModelMaterials(NameChars(last.name))
        /\ e.selectedMaterial = e.materials[1].id

\* C18 witness: a lamp was inserted into a list that held a locked chair.
C18_Witness ==
  /\ last.op = "inserted"
  /\ mounted
  /\ last.name = "lamp"
  /\ \E i \in 1..Len(last.models) :
       last.models[i].name = "chair" /\ last.models[i].locked

\* C19: in variant 1, however the fetch of the mind file ends, the loaded
\* asset is inserted into the list and the scene and no error notification
\* is shown.
C19_MindFileBestEffort ==
  (last.op = "inserted" /\ variant = 1) =>
    /\ << sceneRef, last.lid >> \in sceneNodes
    /\ mounted => \E i \in 1..Len(arModels) :
                    arModels[i].node = last.lid /\ arModels[i].name = last.name
    /\ \A i \in 1..Len(toasts) : toasts[i].variant # "destructive"
    /\ \E i \in 1..Len(toasts) : toasts[i].title = "Model Loaded"

\* C19 witness: an asset was inserted after the fetch of its mind file
\* failed.
C19_Witness ==
  /\ last.op = "inserted"
  /\ variant = 1
  /\ mounted
  /\ last.mind \in { "bad json", "not ok", "network error" }

\* A step takes a load out of flight only by resolving it: a load in flight
\* stays as it is, or goes on to the fetch of its mind file, or the step is
\* the failure or the insertion of that load.
LoadsOnlyResolve ==
  \A l \in loads :
    \/ l \in loads'
    \/ l.stage = "asset" /\ Load(l.lid, l.name, "mind") \in loads'
    \/ last'.op \in { "loadFail", "inserted" } /\ last'.lid = l.lid

\* C21: a load in flight is never cancelled: no stopCamera call and no other
\* handler call takes it out of flight, only its own failure or insertion
\* does; and a load that succeeds after the camera was stopped under it
\* still appends its entity to the list of a mounted viewer.
C21_LoadNeverCancelled ==
  /\ [][LoadsOnlyResolve]_vars
  /\ []((last.op = "inserted" /\ last.stopped /\ mounted) =>
          /\ Len(arModels) = Len(last.models) + 1
          /\ arModels[Len(arModels)].node = last.lid
          /\ arModels[Len(arModels)].name = last.name)
  /\ [](last.op = "stop" => last.inFlight = { l.lid : l \in loads })

\* C21 witness: the camera was stopped while a load was in flight, and the
\* load then succeeded and its entity is the last of the list.
C21_Witness ==
  /\ last.op = "inserted"
  /\ last.stopped
  /\ mounted
  /\ ~cameraActive
  /\ arModels # << >>
  /\ arModels[Len(arModels)].node = last.lid

\* C22 as stated: in a mounted viewer every entity of the list has its node
\* in the scene of sceneRef, and every model node of that scene is the node
\* of an entity of the list.
C22_ListMatchesScene ==
  mounted =>
    /\ \A i \in 1..Len(arModels) : << sceneRef, arModels[i].node >> \in sceneNodes
    /\ \A sn \in sceneNodes :
         sn[1] = sceneRef => \E i \in 1..Len(arModels) : arModels[i].node = sn[2]

\* The correspondence of list and scene in variant 1, which removes no
\* entity.
ListMatchesSceneWithoutRemoval ==
  (mounted /\ variant = 1) => C22_ListMatchesScene

\* The selection is null or the id of an entity of the list.
SelectionIsLive ==
  selectedModel = Null \/ selectedModel \in EntityIds

\* C23 as stated: the selection is null or the id of an entity of the list;
\* in variant 2 an insertion selects the new entity, and the removal of the
\* selected entity sets the selection to null and takes exactly that one
\* entity out of the list.
C23_SelectionDesignatesEntity ==
  /\ SelectionIsLive
  /\ (last.op = "inserted" /\ variant = 2 /\ mounted) =>
       selectedModel = arModels[Len(arModels)].id
  /\ last.op = "remove" =>
       /\ selectedModel = Null
       /\ Len(arModels) = Len(last.models) - 1
       /\ \E k \in 1..Len(last.models) :
            /\ last.models[k].id = last.id
            /\ arModels = SubSeq(last.models, 1, k - 1)
                            \o SubSeq(last.models, k + 1, Len(last.models))

\* The removal takes out of the list the entities carrying the selected id,
\* all of them and no other, and sets the selection to null.
RemovalTakesCarriers ==
  last.op = "remove" =>
    /\ selectedModel = Null
    /\ arModels = SelectSeq(last.models, LAMBDA m : m.id # last.id)
    /\ Carrying(last.models, last.id) # {}

\* C24: each entity's selectedMaterial is the id of a descriptor of that
\* entity's own materials list, or null, and null only when the list is
\* empty; after spawn and after any handleMaterialSelect calls made from the
\* material selector.
C24_SelectedMaterialInCatalog ==
  \A i \in 1..Len(arModels) :
    LET e == arModels[i]
    IN  /\ \/ e.selectedMaterial = Null
           \/ \E k \in 1..Len(e.materials) : e.materials[k].id = e.selectedMaterial
        /\ e.selectedMaterial = Null => e.materials = << >>

\* C24 witness: a chair and a lamp are listed, and a material other than the
\* first of its catalog was selected for one of them.
C24_Witness ==
  /\ last.op = "material"
  /\ \E i, j \in 1..Len(arModels) :
       /\ arModels[i].name = "chair"
       /\ arModels[j].name = "lamp"
       /\ arModels[i].materials # arModels[j].materials
  /\ \E i \in Carrying(arModels, last.id) :
       /\ arModels[i].selectedMaterial = last.material
       /\ arModels[i].selectedMaterial # arModels[i].materials[1].id

(***************************************************************************)
(* Properties of the asset indexer                                         *)
(***************************************************************************)

MainExt(d) == IF d = "3d" THEN ExtGlb ELSE ExtMind

\* index.json of d, read back as the viewer reads it, lists exactly the
\* names of `listing` that end with `extension`, in increasing order.
IndexIs(text, listing, extension) ==
  LET idx == ParseIndex(text)
  IN  /\ text # NoFile
      /\ { idx[i] : i \in 1..Len(idx) } = { f \in listing : EndsWith(f, extension) }
      /\ \A i, j \in 1..Len(idx) : i < j => StrLess(idx[i], idx[j])

\* C6: after generateIndex(directory, extension) the directory exists and its
\* index.json holds exactly the names that were in the directory at
\* generation time and end with the extension, sorted lexicographically;
\* nothing of a previous index is kept.
C6_IndexExact ==
  [][ /\ \A d \in Dirs, e \in Extensions :
           GenerateIndex(d, e) =>
             dirExists'[d] /\ IndexIs(indexJson'[d], ReadDir(d), e)
      /\ Main =>
           \A d \in Dirs :
             dirExists'[d] /\ IndexIs(indexJson'[d], ReadDir(d), MainExt(d))
    ]_vars

\* C6 witness: an index of at least two names was generated in a directory
\* that also holds a name the extension does not select, after a change that
\* followed an earlier index.
C6_Witness ==
  \E d \in Dirs :
    /\ gen[d].runs >= 1
    /\ changes >= 1
    /\ nGen >= 2
    /\ Len(ParseIndex(indexJson[d])) >= 2
    /\ \E f \in files[d] : ~EndsWith(f, gen[d].ext)

\* C7 as stated: a run of generateIndex (or main) that follows a run with the
\* same extension on an unchanged directory leaves index.json as it was.
C7_Idempotent ==
  [][ /\ \A d \in Dirs, e \in Extensions :
           (GenerateIndex(d, e) /\ gen[d].runs >= 1 /\ gen[d].ext = e)
             => indexJson'[d] = indexJson[d]
      /\ \A d \in Dirs :
           (Main /\ gen[d].runs >= 1 /\ gen[d].ext = MainExt(d))
             => indexJson'[d] = indexJson[d]
    ]_vars

\* What does hold of repeated runs: the same, for an extension that the name
\* index.json does not end with (as main's .glb and .mind).
IdempotentForOtherExtensions ==
  [][ /\ \A d \in Dirs, e \in Extensions :
           (GenerateIndex(d, e) /\ gen[d].runs >= 1 /\ gen[d].ext = e
              /\ ~EndsWith(IndexName, e))
             => indexJson'[d] = indexJson[d]
      /\ \A d \in Dirs :
           (Main /\ gen[d].runs >= 1 /\ gen[d].ext = MainExt(d))
             => indexJson'[d] = indexJson[d]
    ]_vars

(***************************************************************************)
(* Properties of the material catalog                                      *)
(***************************************************************************)

Ids(palette) == [i \in 1..Len(palette) |-> palette[i].id]

ChairIds ==
  << << "leather", "brown" >>, << "leather", "black" >>,
     << "fabric", "gray" >>, << "fabric", "blue" >>,
     << "wood", "oak" >>, << "wood", "walnut" >>,
     << "metal", "chrome" >>, << "metal", "black" >> >>

SofaIds ==
  << << "velvet", "emerald" >>, << "velvet", "burgundy" >>,
     << "linen", "beige" >>, << "cotton", "white" >>,
     << "leather", "brown" >>, << "leather", "black" >> >>

TableIds ==
  << << "wood", "oak" >>, << "wood", "walnut" >>,
     << "metal", "chrome" >>, << "metal", "black" >> >>

DefaultIds ==
  << << "default", "red" >>, << "default", "blue" >>,
     << "default", "green" >>, << "default", "purple" >> >>

\* C8: the palette is that of the first keyword, in the order chair, then
\* sofa or couch, then table, that the name contains in any letter case and
\* at any place; a name with several keywords gets the earliest one's
\* palette alone.
C8_FirstMatchWins ==
  mresult # NotCalled =>
    IF "chair" \in MKinds THEN Ids(mresult) = ChairIds
    ELSE IF "sofa" \in MKinds \/ "couch" \in MKinds THEN Ids(mresult) = SofaIds
    ELSE IF "table" \in MKinds THEN Ids(mresult) = TableIds
    ELSE TRUE

\* C8 witness: a name spelling TABLE and then Chair has been looked up.
C8_Witness ==
  /\ mresult # NotCalled
  /\ mparts[1].text = << "T", "A", "B", "L", "E" >>
  /\ mparts[2].text = << "C", "h", "a", "i", "r" >>

\* C9: a name containing none of chair, sofa, couch, table gets exactly the
\* four default entries red, blue, green, purple, in that order.
C9_DefaultPalette ==
  (mresult # NotCalled /\ MKinds = { "none" }) =>
    /\ Ids(mresult) = DefaultIds
    /\ [i \in 1..Len(mresult) |-> mresult[i].name]
         = << "Red", "Blue", "Green", "Purple" >>
    /\ [i \in 1..Len(mresult) |-> mresult[i].color]
         = << "#EF4444", "#3B82F6", "#10B981", "#8B5CF6" >>

\* C9 witness: the name lamp has been looked up.
C9_Witness ==
  /\ mresult # NotCalled
  /\ MName = << "l", "a", "m", "p" >>

====
